---- MODULE Spec2Model ----
(***************************************************************************)
(* KickCraft: the simulation core of the 11v11 canvas prototype            *)
(* (src/README.md, the React component KickCraft) as a state machine.      *)
(*                                                                         *)
(* Units.  The source computes in IEEE doubles; the model computes in      *)
(* integers: lengths in world units, velocities in units per second,       *)
(* times in milliseconds, angles in milliradians.  A product with a        *)
(* fractional factor is carried out on integers and truncated toward zero  *)
(* (Quot).  Distances are compared through their squares, which is exact.  *)
(* Math.random() is a nondeterministic choice from a small set.            *)
(***************************************************************************)
EXTENDS Integers, Sequences, FiniteSets, TLC

VARIABLES
    state,    \* the `state` object of the component (README.md:164-189)
    ev,       \* what the last handler did: its kind and the values it read mid-way
    dtMs,     \* the frame interval of this run, ms (the display's refresh period)
    nTicks,   \* frames run so far
    nInputs,  \* input events delivered so far
    life,     \* what the effect holds: the pending frame callback, the listeners
    sw        \* the service worker's world: caches, handlers in flight, activation

vars == <<state, ev, dtMs, nTicks, nInputs, life, sw>>

\* ---------------------------------------------------------------- bounds
MaxTicks == 3
MaxInputs == 2
MaxGoals == 13
MaxPlayTicks == 16
MaxLongTicks == 34

\* ------------------------------------------------------------- constants
W == 1100
H == 620
GOAL_W == 320
BALL_R == 10
RESTITUTION_PCT == 58
NUM_DEFENDERS == 10
NUM_TEAMMATES == 10
TEAMMATE_SPEED == 170
PASS_MIN == 360
PASS_MAX == 780
FINESSE_SPIN == 85
DRIVEN_SPEED_PCT == 118
FINESSE_SPEED_PCT == 82
SHOT_SPRAY_MRAD == 30
GK_REACT_MS == 120
GK_HOLD_SPEED == 380
PLAYER_R == 14
GK_SPEED == 360
GK_DEPTH == 52
DT_CAP_MS == 33
GOAL_LINE == 36
PAD == 24
GOALS_TO_ADVANCE == 2

LEVELS ==
    << [name |-> "Friendly",     maxEngagers |-> 2, defenderSpeed |-> 200, engageRadius |-> 185, holdRadius |-> 88, captureSpeedMax |-> 280, passGrace |-> 700],
       [name |-> "Warmup",       maxEngagers |-> 2, defenderSpeed |-> 220, engageRadius |-> 195, holdRadius |-> 84, captureSpeedMax |-> 300, passGrace |-> 650],
       [name |-> "League Match", maxEngagers |-> 2, defenderSpeed |-> 240, engageRadius |-> 205, holdRadius |-> 82, captureSpeedMax |-> 320, passGrace |-> 620],
       [name |-> "Cup Tie",      maxEngagers |-> 3, defenderSpeed |-> 255, engageRadius |-> 215, holdRadius |-> 80, captureSpeedMax |-> 340, passGrace |-> 580],
       [name |-> "Quarterfinal", maxEngagers |-> 3, defenderSpeed |-> 270, engageRadius |-> 225, holdRadius |-> 78, captureSpeedMax |-> 360, passGrace |-> 540],
       [name |-> "Semifinal",    maxEngagers |-> 3, defenderSpeed |-> 285, engageRadius |-> 235, holdRadius |-> 76, captureSpeedMax |-> 380, passGrace |-> 520],
       [name |-> "Final",        maxEngagers |-> 3, defenderSpeed |-> 300, engageRadius |-> 245, holdRadius |-> 74, captureSpeedMax |-> 400, passGrace |-> 500] >>

\* LEVELS.length
NumLevels == Len(LEVELS)

\* LEVELS[i], i counted from 0 as in the source
Level(i) == LEVELS[i + 1]

\* ------------------------------------------------------------ arithmetic
Abs(a) == IF a < 0 THEN -a ELSE a

Min(a, b) == IF a < b THEN a ELSE b

Max(a, b) == IF a > b THEN a ELSE b

\* a / b on doubles, truncated toward zero (b > 0)
Quot(a, b) == IF a >= 0 THEN a \div b ELSE -((-a) \div b)

\* Math.max(lo, Math.min(hi, v))
Clamp(lo, hi, v) == Max(lo, Min(hi, v))

RECURSIVE SqrtSearch(_, _, _)
SqrtSearch(n, lo, hi) ==
    IF lo >= hi THEN lo
    ELSE LET mid == (lo + hi + 1) \div 2
         IN  IF mid * mid <= n THEN SqrtSearch(n, mid, hi) ELSE SqrtSearch(n, lo, mid - 1)

\* floor of the square root
ISqrt(n) == SqrtSearch(n, 0, 16383)

Sq(a) == a * a

\* Math.hypot(dx, dy) || 1, in tenths of a unit
Hypot10(dx, dy) ==
    LET h == ISqrt(100 * (Sq(dx) + Sq(dy)))
    IN  IF dx = 0 /\ dy = 0 THEN 10 ELSE Max(h, 1)

\* (c / Math.hypot(dx, dy)) * len: the component c of the direction (dx, dy), scaled to len
Along(c, dx, dy, len) == Quot(c * len * 10, Hypot10(dx, dy))

\* Math.sin(a) * 20 for a in milliradians (Bhaskara's rational approximation of the sine)
Sin20(a) ==
    LET m == a % 6283
        x == IF m < 3142 THEN m ELSE m - 3142
        p == x * (3142 - x)
        v == Quot(320 * p, 49360820 - 4 * p)
    IN  IF m < 3142 THEN v ELSE -v

\* -------------------------------------------------------------- rosters
ROLES_PT == << "LB", "LCB", "RCB", "RB", "CDM", "LCM", "RCM", "LW", "ST", "RW" >>

ROLES_FR == << "RB", "RCB", "LCB", "LB", "CDM", "RCM", "LCM", "RW", "ST", "LW" >>

\* H * f for a fraction f given in hundredths
HFrac(pct) == Quot(H * pct, 100)

ANCHORS_PT(role) ==
    CASE role = "LB"  -> [x |-> -260, y |-> HFrac(68)]
      [] role = "LCB" -> [x |-> -120, y |-> HFrac(68)]
      [] role = "RCB" -> [x |->  120, y |-> HFrac(68)]
      [] role = "RB"  -> [x |->  260, y |-> HFrac(68)]
      [] role = "CDM" -> [x |->    0, y |-> HFrac(58)]
      [] role = "LCM" -> [x |-> -120, y |-> HFrac(56)]
      [] role = "RCM" -> [x |->  120, y |-> HFrac(56)]
      [] role = "LW"  -> [x |-> -220, y |-> HFrac(42)]
      [] role = "ST"  -> [x |->    0, y |-> HFrac(40)]
      [] role = "RW"  -> [x |->  220, y |-> HFrac(42)]

ANCHORS_FR(role) ==
    CASE role = "RB"  -> [x |->  260, y |-> HFrac(32)]
      [] role = "RCB" -> [x |->  120, y |-> HFrac(32)]
      [] role = "LCB" -> [x |-> -120, y |-> HFrac(32)]
      [] role = "LB"  -> [x |-> -260, y |-> HFrac(32)]
      [] role = "CDM" -> [x |->    0, y |-> HFrac(42)]
      [] role = "RCM" -> [x |->  120, y |-> HFrac(44)]
      [] role = "LCM" -> [x |-> -120, y |-> HFrac(44)]
      [] role = "RW"  -> [x |->  220, y |-> HFrac(22)]
      [] role = "ST"  -> [x |->    0, y |-> HFrac(20)]
      [] role = "LW"  -> [x |-> -220, y |-> HFrac(22)]

MateIdx == 0 .. NUM_TEAMMATES - 1

DefIdx == 0 .. NUM_DEFENDERS - 1

\* The outcomes of the two Math.random() calls of spawnTeamWithRoles kept for player i:
\* phase: Math.random()*6.28 s, in ms; react: 220 + Math.random()*220 ms
PhaseDraw(i) == (i * 1428) % 6280

ReactDraw(i) == 220 + ((i * 110) % 220)

\* spawnTeamWithRoles(ROLES_PT, ANCHORS_PT): index i counted from 0
SpawnMates ==
    [i \in MateIdx |->
        LET a == ANCHORS_PT(ROLES_PT[i + 1])
        IN  [x |-> W \div 2 + a.x, y |-> a.y, phase |-> PhaseDraw(i),
             homeX |-> W \div 2 + a.x, homeY |-> a.y]]

\* spawnTeamWithRoles(ROLES_FR, ANCHORS_FR)
SpawnDefenders ==
    [i \in DefIdx |->
        LET a == ANCHORS_FR(ROLES_FR[i + 1])
        IN  [x |-> W \div 2 + a.x, y |-> a.y, engaged |-> FALSE,
             react |-> ReactDraw(i), lag |-> 0,
             homeX |-> W \div 2 + a.x, homeY |-> a.y]]

KeyNames == {"w", "a", "s", "d", "ArrowLeft", "ArrowRight", "ArrowUp", "ArrowDown"}

\* Variant of applyLevel: the tier index wraps round instead of stopping at the last tier
\* applyLevel without its second assignment: the tier index moves, cfg stays
applyLevelStaleCfg(s, i) ==
    [s EXCEPT !.levelIdx = Max(0, Min(NumLevels - 1, i))]

applyLevelWrapped(s, i) ==
    LET li == i % NumLevels
    IN  [s EXCEPT !.levelIdx = li, !.cfg = Level(li)]

\* function applyLevel(i): the level fields of s after the call
applyLevel(s, i) ==
    LET li == Max(0, Min(NumLevels - 1, i))
    IN  [s EXCEPT !.levelIdx = li, !.cfg = Level(li)]

\* function advanceLevel()
advanceLevel(s) == applyLevel(s, s.levelIdx + 1)

\* The state object as constructed, after applyLevel(0) (carrier: -1 stands for null,
\* a defender for its index in state.defenders)
NewState ==
    applyLevel(
        [ball |-> [x |-> W \div 2, y |-> H \div 2, vx |-> 0, vy |-> 0, spin |-> 0],
         charging |-> FALSE,
         aim |-> [x |-> W \div 2, y |-> H \div 2],
         defenders |-> SpawnDefenders,
         mates |-> SpawnMates,
         tackleCd |-> 0, protect |-> 0,
         carrier |-> -1, ptCarrier |-> -1,
         score |-> 0, against |-> 0,
         gkFR |-> [x |-> W \div 2, y |-> GK_DEPTH, reactT |-> 0],
         gkPT |-> [x |-> W \div 2, y |-> H - GK_DEPTH, reactT |-> 0],
         trapLock |-> 0, trapOwner |-> -1, receiverIndex |-> -1,
         selectedIdx |-> 0,
         keys |-> [k \in KeyNames |-> FALSE],
         mod |-> [shift |-> FALSE, ctrl |-> FALSE],
         levelIdx |-> 0, levelProgress |-> 0,
         cfg |-> Level(0)],
        0)

\* Variant of DecayTimers: the timers are not stopped at 0
DecayTimersUnclamped(s, dt) ==
    [s EXCEPT !.tackleCd = s.tackleCd - dt,
              !.protect  = s.protect - dt,
              !.trapLock = s.trapLock - dt]

\* ------------------------------------------------------- update: physics
\* update, lines 276-278: the three timers decay by dt and stop at 0
DecayTimers(s, dt) ==
    [s EXCEPT !.tackleCd = Max(0, s.tackleCd - dt),
              !.protect  = Max(0, s.protect - dt),
              !.trapLock = Max(0, s.trapLock - dt)]

\* v * (1 - 0.08 * dt), dt in ms
Drag(v, dt) == v - Quot(v * 8 * dt, 100000)

\* update, lines 282-284: spin curves vx, the position advances, drag applies
Integrate(b, dt) ==
    LET vx1 == b.vx + Quot(b.spin * dt, 1000)
    IN  [b EXCEPT !.vx = Drag(vx1, dt),
                  !.vy = Drag(b.vy, dt),
                  !.x  = b.x + Quot(vx1 * dt, 1000),
                  !.y  = b.y + Quot(b.vy * dt, 1000)]

\* Variant of Rebound: the wall returns the whole speed
ReboundElastic(v) == -v

\* -v * RESTITUTION
Rebound(v) == -Quot(v * RESTITUTION_PCT, 100)

\* update, lines 287-290: the four walls, in the order left, right, top, bottom
Walls(b) ==
    LET b1 == IF b.x < PAD + BALL_R
              THEN [b EXCEPT !.x = PAD + BALL_R, !.vx = IF b.vx < 0 THEN Rebound(b.vx) ELSE b.vx]
              ELSE b
        b2 == IF b1.x > W - PAD - BALL_R
              THEN [b1 EXCEPT !.x = W - PAD - BALL_R, !.vx = IF b1.vx > 0 THEN Rebound(b1.vx) ELSE b1.vx]
              ELSE b1
        b3 == IF b2.y < PAD + BALL_R
              THEN [b2 EXCEPT !.y = PAD + BALL_R, !.vy = IF b2.vy < 0 THEN Rebound(b2.vy) ELSE b2.vy]
              ELSE b2
    IN  IF b3.y > H - PAD - BALL_R
        THEN [b3 EXCEPT !.y = H - PAD - BALL_R, !.vy = IF b3.vy > 0 THEN Rebound(b3.vy) ELSE b3.vy]
        ELSE b3

\* function resetBall() (defined twice in the source, with the same body)
resetBall(s) ==
    [s EXCEPT !.ball = [x |-> W \div 2, y |-> H \div 2, vx |-> 0, vy |-> 0, spin |-> 0],
              !.carrier = -1, !.ptCarrier = -1, !.protect = 0, !.receiverIndex = -1,
              !.gkFR.reactT = 0, !.gkPT.reactT = 0]

\* Math.abs(b.x - W/2) < GOAL_W/2
InMouth(b) == Abs(b.x - W \div 2) < GOAL_W \div 2

\* Variant of FarGoalTest: the whole far line counts, not only the mouth
FarGoalTestAnywhere(b) == b.y - BALL_R < GOAL_LINE

\* update, line 294: the test of the away (top) goal
FarGoalTest(b) == b.y - BALL_R < GOAL_LINE /\ InMouth(b)

\* update, line 295: the test of the home (bottom) goal
NearGoalTest(b) == b.y + BALL_R > H - GOAL_LINE /\ InMouth(b)

\* update, line 294, the body of the if: score, progression, reset
FarGoal(s) ==
    LET s1 == [s EXCEPT !.score = s.score + 1, !.levelProgress = s.levelProgress + 1]
        s2 == IF s1.levelProgress >= GOALS_TO_ADVANCE
              THEN advanceLevel([s1 EXCEPT !.levelProgress = 0])
              ELSE s1
    IN  resetBall(s2)

\* update, line 295, the body of the if
NearGoal(s) == resetBall([s EXCEPT !.against = s.against + 1])

\* update, lines 293-295: the two goal tests, one after the other
Goals(s) ==
    LET s1 == IF FarGoalTest(s.ball) THEN FarGoal(s) ELSE s
    IN  IF NearGoalTest(s1.ball) THEN NearGoal(s1) ELSE s1

\* ---------------------------------------------------- update: possession
\* Math.hypot(b.x - p.x, b.y - p.y) squared
Dist2(b, p) == Sq(b.x - p.x) + Sq(b.y - p.y)

\* update, line 300, the condition: d < m.r + b.r - 1
Overlaps(b, m) == Dist2(b, m) < Sq(PLAYER_R + BALL_R - 1)

\* Variant of Trap: the trap opens no protect window
TrapUnprotected(s, i) ==
    [s EXCEPT !.ball = [x |-> s.mates[i].x, y |-> s.mates[i].y - 12, vx |-> 0, vy |-> 0, spin |-> 0],
              !.receiverIndex = i, !.trapLock = 300,
              !.trapOwner = i, !.ptCarrier = i]

\* update, line 300, the body of the if: mate i traps the ball
Trap(s, i) ==
    [s EXCEPT !.ball = [x |-> s.mates[i].x, y |-> s.mates[i].y - 12, vx |-> 0, vy |-> 0, spin |-> 0],
              !.protect = 500, !.receiverIndex = i, !.trapLock = 300,
              !.trapOwner = i, !.ptCarrier = i]

\* update, lines 298-301: the first mate in roster order that may trap does, and the loop ends
RECURSIVE TrapLoop(_, _)
TrapLoop(s, i) ==
    IF i >= NUM_TEAMMATES THEN s
    ELSE IF s.trapLock <= 0 /\ Overlaps(s.ball, s.mates[i]) THEN Trap(s, i)
    ELSE TrapLoop(s, i + 1)

\* ------------------------------------------------------------ update: AI
\* A point moved from (p.x, p.y) toward (tx, ty) by Math.min(step, distance);
\* step10 is the step in tenths of a unit
MoveToward(p, tx, ty, step10) ==
    LET dx == tx - p.x
        dy == ty - p.y
        h  == Hypot10(dx, dy)
        st == Min(step10, h)
    IN  [p EXCEPT !.x = p.x + Quot(dx * st, h), !.y = p.y + Quot(dy * st, h)]

\* update, lines 307-308: the direction the held keys give, each component in -1..1
KeyDir(keys) ==
    [x |-> (IF keys["d"] \/ keys["ArrowRight"] THEN 1 ELSE 0) + (IF keys["a"] \/ keys["ArrowLeft"] THEN -1 ELSE 0),
     y |-> (IF keys["s"] \/ keys["ArrowDown"] THEN 1 ELSE 0) + (IF keys["w"] \/ keys["ArrowUp"] THEN -1 ELSE 0)]

\* update, lines 306-310: the selected mate moves by the keys and is clamped to the field
MoveSelected(m, keys, dt) ==
    LET v      == KeyDir(keys)
        mag    == Hypot10(v.x, v.y)
        step10 == Quot(TEAMMATE_SPEED * dt, 100)
    IN  [m EXCEPT !.x = Clamp(24, W - 24, m.x + Quot(v.x * step10, mag)),
                  !.y = Clamp(24, H - 24, m.y + Quot(v.y * step10, mag))]

\* update, lines 311-317: an off-ball mate drifts to its anchor, weaving
MoveOffBall(m, b, dt) ==
    LET targetY == Min(m.homeY, b.y + 140)
        targetX == m.homeX + Sin20(Quot(m.phase * 11, 10))
    IN  MoveToward(m, targetX, targetY, Quot(TEAMMATE_SPEED * 8 * dt, 1000))

\* update, lines 304-318
MoveMates(s, dt) ==
    [s EXCEPT !.mates =
        [i \in MateIdx |->
            LET m == [s.mates[i] EXCEPT !.phase = s.mates[i].phase + dt]
            IN  IF i = s.selectedIdx THEN MoveSelected(m, s.keys, dt)
                ELSE MoveOffBall(m, s.ball, dt)]]

\* update, lines 321-322: the ball follows the attacking carrier
Attach(s, dt) ==
    IF s.ptCarrier = s.selectedIdx
    THEN LET m == s.mates[s.selectedIdx]
         IN  [s EXCEPT !.ball = [x |-> m.x, y |-> m.y - 12, vx |-> 0, vy |-> 0, spin |-> 0]]
    ELSE IF s.ptCarrier >= 0
    THEN LET i     == s.ptCarrier
             m     == s.mates[i]
             stepM == Quot(TEAMMATE_SPEED * dt, 1000)
             y1    == Max(GOAL_LINE + 24, m.y - stepM)
         IN  [s EXCEPT !.mates[i].y = y1,
                       !.ball = [x |-> m.x, y |-> y1 - 12, vx |-> 0, vy |-> 0, spin |-> s.ball.spin]]
    ELSE s

\* gkUpdate without its reaction gate (line 366): the keeper tracks the ball every tick
gkUpdateUngated(gk, b, topGoal, dt) ==
    LET goalY    == IF topGoal THEN GOAL_LINE ELSE H - GOAL_LINE
        vyToward == IF topGoal THEN b.vy < 0 ELSE b.vy > 0
    IN  IF ~vyToward THEN [gk EXCEPT !.reactT = Max(0, gk.reactT - dt)]
        ELSE LET projX   == b.x + Quot(b.vx * Abs(goalY - b.y), Abs(b.vy))
                 targetX == Clamp(W \div 2 - GOAL_W \div 2 + 18, W \div 2 + GOAL_W \div 2 - 18, projX)
                 step    == Quot(GK_SPEED * dt, 1000)
             IN  [gk EXCEPT !.x = gk.x + Clamp(-step, step, targetX - gk.x),
                            !.reactT = Quot(GK_REACT_MS * 25, 100)]

\* gkUpdate without the clamp of its target to the goal mouth (line 370)
gkUpdateUnbounded(gk, b, topGoal, dt) ==
    LET goalY    == IF topGoal THEN GOAL_LINE ELSE H - GOAL_LINE
        vyToward == IF topGoal THEN b.vy < 0 ELSE b.vy > 0
        waited   == [gk EXCEPT !.reactT = Max(0, gk.reactT - dt)]
    IN  IF ~vyToward THEN waited
        ELSE IF gk.reactT > 0 THEN waited
        ELSE LET projX == b.x + Quot(b.vx * Abs(goalY - b.y), Abs(b.vy))
                 step  == Quot(GK_SPEED * dt, 1000)
             IN  [gk EXCEPT !.x = gk.x + Clamp(-step, step, projX - gk.x),
                            !.reactT = Quot(GK_REACT_MS * 25, 100)]

\* function gkUpdate(gk, b, topGoal, dt)
gkUpdate(gk, b, topGoal, dt) ==
    LET goalY    == IF topGoal THEN GOAL_LINE ELSE H - GOAL_LINE
        vyToward == IF topGoal THEN b.vy < 0 ELSE b.vy > 0
        waited   == [gk EXCEPT !.reactT = Max(0, gk.reactT - dt)]
    IN  IF ~vyToward THEN waited
        ELSE IF gk.reactT > 0 THEN waited
        ELSE LET projX      == b.x + Quot(b.vx * Abs(goalY - b.y), Abs(b.vy))
                 leftBound  == W \div 2 - GOAL_W \div 2 + 18
                 rightBound == W \div 2 + GOAL_W \div 2 - 18
                 targetX    == Clamp(leftBound, rightBound, projX)
                 step       == Quot(GK_SPEED * dt, 1000)
             IN  [gk EXCEPT !.x = gk.x + Clamp(-step, step, targetX - gk.x),
                            !.reactT = Quot(GK_REACT_MS * 25, 100)]

\* The outcomes of (Math.random()<0.5 ? -1 : 1) * (0.25 + Math.random()*0.35) kept:
\* the cosine and sine of the angle, in thousandths
ParryAngles == { [c |-> 969, s |-> 247], [c |-> 825, s |-> -565] }

\* function rotate(vx, vy, angle)
rotate(vx, vy, a) ==
    [x |-> Quot(vx * a.c - vy * a.s, 1000), y |-> Quot(vx * a.s + vy * a.c, 1000)]

\* Math.hypot(b.vx, b.vy) squared
Speed2(b) == Sq(b.vx) + Sq(b.vy)

\* function gkSave(gk, b, topGoal); angle is the parry's random angle
gkSave(s, gk, topGoal, angle) ==
    LET b       == s.ball
        withinX == Abs(b.x - gk.x) < 34
        hit     == IF topGoal THEN b.y - BALL_R < gk.y + 14 /\ withinX /\ b.vy < 0
                   ELSE b.y + BALL_R > gk.y - 14 /\ withinX /\ b.vy > 0
        front   == IF topGoal THEN gk.y + 12 ELSE gk.y - 12
        newV    == rotate(b.vx, b.vy, angle)
        away    == Quot(Abs(newV.y) * 6, 10)
    IN  IF ~hit THEN s
        ELSE IF Speed2(b) < Sq(GK_HOLD_SPEED)
        THEN [s EXCEPT !.ball = [b EXCEPT !.vx = 0, !.vy = 0, !.x = gk.x, !.y = front],
                       !.protect = 200]
        ELSE [s EXCEPT !.ball = [b EXCEPT !.vx = Quot(newV.x * 8, 10),
                                          !.vy = IF topGoal THEN away ELSE -away,
                                          !.y = front],
                       !.protect = 140]

\* update, lines 325-330: both keepers move, then both may save
Keepers(s, dt, angle) ==
    LET s1 == [s EXCEPT !.gkFR = gkUpdate(s.gkFR, s.ball, TRUE, dt)]
        s2 == [s1 EXCEPT !.gkPT = gkUpdate(s1.gkPT, s1.ball, FALSE, dt)]
        s3 == gkSave(s2, s2.gkFR, TRUE, angle)
    IN  gkSave(s3, s3.gkPT, FALSE, angle)

\* ----------------------------------------------------- update: defenders
\* update, line 333, the map: each defender's distance to the ball, squared
Dists(s) == [j \in DefIdx |-> Dist2(s.ball, s.defenders[j])]

\* The comparator (a, b) => a.dist - b.dist of a stable sort: defender i is sorted
\* before defender j, or is j
Before(dist, i, j) == dist[i] < dist[j] \/ (dist[i] = dist[j] /\ i <= j)

\* update, line 333, the sort: the defenders' indices, nearest to the ball first
RECURSIVE SortLoop(_, _)
SortLoop(dist, rest) ==
    IF rest = {} THEN << >>
    ELSE LET first == CHOOSE i \in rest : \A j \in rest : Before(dist, i, j)
         IN  << first >> \o SortLoop(dist, rest \ {first})

Sorted(dist) == SortLoop(dist, DefIdx)

\* update, line 335: the loop that fills the set `engaged`
RECURSIVE EngageLoop(_, _, _, _, _)
EngageLoop(cfg, dist, sorted, k, engaged) ==
    IF k > Len(sorted) THEN engaged
    ELSE IF Cardinality(engaged) >= cfg.maxEngagers THEN engaged
    ELSE IF dist[sorted[k]] < Sq(cfg.engageRadius)
         THEN EngageLoop(cfg, dist, sorted, k + 1, engaged \cup {sorted[k]})
         ELSE EngageLoop(cfg, dist, sorted, k + 1, engaged)

\* Variant of Engaged: every defender within the radius engages, whatever the cap
EngagedUncapped(s) ==
    LET dist == Dists(s)
    IN  {i \in DefIdx : dist[i] < Sq(s.cfg.engageRadius)}

\* update, lines 333-335
Engaged(s) ==
    LET dist == Dists(s)
    IN  EngageLoop(s.cfg, dist, Sorted(dist), 1, {})

\* Steer without the wait of line 343: an engaging defender chases the lead point at once
SteerAtOnce(p, b, isEngaging, dt) ==
    LET p1 == IF isEngaging /\ ~p.engaged THEN [p EXCEPT !.lag = p.react, !.engaged = TRUE]
              ELSE IF ~isEngaging /\ p.engaged THEN [p EXCEPT !.engaged = FALSE, !.lag = 0]
              ELSE p
    IN  [p  |-> IF isEngaging /\ p1.lag > 0 THEN [p1 EXCEPT !.lag = p1.lag - dt] ELSE p1,
         tx |-> IF isEngaging THEN b.x + Quot(b.vx * 35, 100) ELSE p.homeX,
         ty |-> IF isEngaging THEN b.y + Quot(b.vy * 35, 100) ELSE p.homeY]

\* update, lines 339-343: the engaged flag, the lag and the target of defender p
Steer(p, b, isEngaging, dt) ==
    LET p1 == IF isEngaging /\ ~p.engaged THEN [p EXCEPT !.lag = p.react, !.engaged = TRUE]
              ELSE IF ~isEngaging /\ p.engaged THEN [p EXCEPT !.engaged = FALSE, !.lag = 0]
              ELSE p
        lead == isEngaging /\ p1.lag <= 0
    IN  [p  |-> IF isEngaging /\ p1.lag > 0 THEN [p1 EXCEPT !.lag = p1.lag - dt] ELSE p1,
         tx |-> IF lead THEN b.x + Quot(b.vx * 35, 100) ELSE p.homeX,
         ty |-> IF lead THEN b.y + Quot(b.vy * 35, 100) ELSE p.homeY]

\* Variant of CanTackle: the protect window is not respected
CanTackleProtected(s, i) ==
    /\ s.carrier # i
    /\ s.tackleCd <= 0
    /\ Dist2(s.ball, s.defenders[i]) < Sq(PLAYER_R + BALL_R)
    /\ Speed2(s.ball) <= Sq(s.cfg.captureSpeedMax)

\* update, line 350, the condition of the tackle
CanTackle(s, i) ==
    /\ s.carrier # i
    /\ s.protect <= 0
    /\ s.tackleCd <= 0
    /\ Dist2(s.ball, s.defenders[i]) < Sq(PLAYER_R + BALL_R)
    /\ Speed2(s.ball) <= Sq(s.cfg.captureSpeedMax)

\* update, line 351: defender i takes the ball
Capture(s, i) ==
    [s EXCEPT !.carrier = i, !.tackleCd = 120, !.protect = 250, !.ptCarrier = -1,
              !.ball.spin = 0]

\* The outcomes of 520 + Math.random()*160 kept
ShotSpeeds == {520, 679}

\* update, line 354: the carrying defender shoots at the home goal or keeps the ball at its feet
Carry(s, i, speed) ==
    LET p          == s.defenders[i]
        distToHome == (H - GOAL_LINE) - p.y
        dxs        == W \div 2 - p.x
        dys        == (H - GOAL_LINE) - p.y - 6
    IN  IF distToHome < 60 /\ Abs(p.x - W \div 2) < GOAL_W \div 2 - 20
        THEN [s EXCEPT !.ball = [s.ball EXCEPT !.x = p.x, !.y = p.y - 6,
                                               !.vx = Along(dxs, dxs, dys, speed),
                                               !.vy = Along(dys, dxs, dys, speed)],
                       !.carrier = -1, !.protect = 40]
        ELSE [s EXCEPT !.ball = [s.ball EXCEPT !.x = p.x, !.y = p.y - 12, !.vx = 0, !.vy = 0]]

\* What defender i's tackle test read, and the carrier after it
TackleRecord(s, i, after, st) ==
    [carrier |-> s.carrier, protect |-> s.protect, tackleCd |-> s.tackleCd,
     dist2 |-> Dist2(s.ball, s.defenders[i]), speed2 |-> Speed2(s.ball),
     cap |-> s.cfg.captureSpeedMax, after |-> after.carrier,
     ptCarrier |-> s.ptCarrier, ball |-> s.ball, tx |-> st.tx, ty |-> st.ty]

\* update, lines 337-356, the body of the loop for defender i; c.s is the state and
\* c.tackle the record of the tackle tests so far
DefenderStep(c, i, engaged, dt, speed) ==
    LET s     == c.s
        isE   == i \in engaged
        st    == Steer(s.defenders[i], s.ball, isE, dt)
        step  == Quot(s.cfg.defenderSpeed * dt * (IF isE THEN 10 ELSE 7), 1000)
        s1    == [s EXCEPT !.defenders[i] = MoveToward(st.p, st.tx, st.ty, step)]
        s2    == IF CanTackle(s1, i) THEN Capture(s1, i) ELSE s1
        s3    == IF s2.carrier = i THEN Carry(s2, i, speed) ELSE s2
    IN  [s |-> s3, tackle |-> [c.tackle EXCEPT ![i] = TackleRecord(s1, i, s2, st)]]

RECURSIVE DefenderLoop(_, _, _, _, _)
DefenderLoop(c, i, engaged, dt, speed) ==
    IF i >= NUM_DEFENDERS THEN c
    ELSE DefenderLoop(DefenderStep(c, i, engaged, dt, speed), i + 1, engaged, dt, speed)

NoTackle ==
    [carrier |-> -1, protect |-> 0, tackleCd |-> 0, dist2 |-> 0, speed2 |-> 0, cap |-> 0,
     after |-> -1, ptCarrier |-> -1, ball |-> [x |-> 0, y |-> 0, vx |-> 0, vy |-> 0, spin |-> 0], tx |-> 0, ty |-> 0]

\* update, lines 333-356
Defenders(s, dt, speed) ==
    DefenderLoop([s |-> s, tackle |-> [i \in DefIdx |-> NoTackle]], 0, Engaged(s), dt, speed)

\* ---------------------------------------------------------------- update
\* The possession fields and the ball of s, as one record
Poss(s) ==
    [ball |-> s.ball, carrier |-> s.carrier, ptCarrier |-> s.ptCarrier,
     receiverIndex |-> s.receiverIndex, trapOwner |-> s.trapOwner,
     protect |-> s.protect, trapLock |-> s.trapLock, tackleCd |-> s.tackleCd]

\* function update(dt): the state after it, and the values it passed through.
\* angle and speed are the outcomes of Math.random() in gkSave and in the defender's
\* shot (at most one parry and one defender shot happen in a tick: a parry sends the
\* ball away from the other keeper, a shot leaves protect > 0).
\* The score and the tier of s, as one record
Tally(s) ==
    [score |-> s.score, against |-> s.against, levelIdx |-> s.levelIdx,
     levelProgress |-> s.levelProgress]

\* The ball, the keepers and the protect timer of s, as one record
AtKeepers(s) ==
    [ball |-> s.ball, gkFR |-> s.gkFR, gkPT |-> s.gkPT, protect |-> s.protect]

update(s, dt, angle, speed) ==
    LET s1 == DecayTimers(s, dt)
        s2 == [s1 EXCEPT !.ball = Integrate(s1.ball, dt)]
        s3 == [s2 EXCEPT !.ball = Walls(s2.ball)]
        s4 == Goals(s3)
        s5 == TrapLoop(s4, 0)
        s6 == MoveMates(s5, dt)
        s7 == Attach(s6, dt)
        s8 == Keepers(s7, dt, angle)
        c9 == Defenders(s8, dt, speed)
    IN  [s |-> c9.s,
         ev |-> [kind |-> "tick", button |-> -1, hold |-> -1, dt |-> dt, pre |-> s,
                 atWalls |-> s2.ball, atGoal |-> s3.ball, afterGoals |-> Poss(s4),
                 atTrap |-> Poss(s4), afterTrap |-> Poss(s5),
                 tallyAtTrap |-> Tally(s4), atKeepers |-> AtKeepers(s7),
                 atDefenders |-> Poss(s8), tackle |-> c9.tackle]]

\* What a handler other than the frame callback leaves in ev (button: e.button of a
\* mouse event, -1 otherwise; hold: the hold time shoot() measured, -1 when it did not run)
InputEv(kind, button, hold, s) ==
    [kind |-> kind, button |-> button, hold |-> hold, dt |-> 0, pre |-> s,
     atWalls |-> s.ball, atGoal |-> s.ball, afterGoals |-> Poss(s),
     atTrap |-> Poss(s), afterTrap |-> Poss(s),
     tallyAtTrap |-> Tally(s), atKeepers |-> AtKeepers(s),
     atDefenders |-> Poss(s), tackle |-> [i \in DefIdx |-> NoTackle]]

\* ---------------------------------------------------------------- inputs
\* function cycleSelected(dir)
cycleSelected(s, dir) ==
    LET n == NUM_TEAMMATES
    IN  [s EXCEPT !.selectedIdx = (((s.selectedIdx + dir) % n) + n) % n]

\* The outcomes of (Math.random()-0.5) * SHOT_SPRAY kept, in milliradians
Sprays == { -(SHOT_SPRAY_MRAD \div 2), (SHOT_SPRAY_MRAD \div 2) - 1 }

\* Variant of ShotSpeed: Shift makes a finesse shot whatever Ctrl is
ShotSpeedShiftWins(hold, shift, ctrl) ==
    LET ms      == Min(900, hold)
        pwr     == Max(150, Min(1000, Quot(ms * 1000, 900)))
        speedF  == IF shift THEN FINESSE_SPEED_PCT ELSE IF ctrl THEN DRIVEN_SPEED_PCT ELSE 100
    IN  Quot((300000 + pwr * 500) * speedF, 100000)

\* (300 + pwr*500) * speedF for a hold of `hold` ms
ShotSpeed(hold, shift, ctrl) ==
    LET ms      == Min(900, hold)
        pwr     == Max(150, Min(1000, Quot(ms * 1000, 900)))
        finesse == shift /\ ~ctrl
        driven  == ctrl /\ ~shift
        speedF  == IF finesse THEN FINESSE_SPEED_PCT ELSE IF driven THEN DRIVEN_SPEED_PCT ELSE 100
    IN  Quot((300000 + pwr * 500) * speedF, 100000)

\* function shoot(); hold is performance.now() - state.t0, spray the aim error
shoot(s, hold, spray) ==
    LET b       == s.ball
        dx      == s.aim.x - b.x
        dy      == s.aim.y - b.y
        h       == Hypot10(dx, dy)
        ux      == IF dx = 0 /\ dy = 0 THEN 1000 ELSE Quot(dx * 10000, h)
        uy      == IF dx = 0 /\ dy = 0 THEN 0 ELSE Quot(dy * 10000, h)
        ax      == ux - Quot(spray * uy, 1000)
        ay      == uy + Quot(spray * ux, 1000)
        n       == ISqrt(Sq(ax) + Sq(ay))
        spd     == ShotSpeed(hold, s.mod.shift, s.mod.ctrl)
        finesse == s.mod.shift /\ ~s.mod.ctrl
    IN  [s EXCEPT !.ball = [b EXCEPT !.vx = Quot(ax * spd, n), !.vy = Quot(ay * spd, n),
                                     !.spin = IF finesse
                                              THEN (IF dx > 0 THEN FINESSE_SPIN ELSE -FINESSE_SPIN)
                                              ELSE 0],
                  !.protect = 120, !.receiverIndex = -1, !.trapLock = 250,
                  !.trapOwner = -1, !.ptCarrier = -1]

\* function passToIndex(idx)
passToIndex(s, idx) ==
    IF idx \notin MateIdx THEN s
    ELSE LET b     == s.ball
             m     == s.mates[idx]
             dx    == m.x - b.x
             dy    == m.y - b.y
             speed == Min(PASS_MAX, Max(PASS_MIN, Quot(5 * Hypot10(dx, dy), 10)))
         IN  [s EXCEPT !.ball = [b EXCEPT !.vx = Along(dx, dx, dy, speed),
                                          !.vy = Along(dy, dx, dy, speed), !.spin = 0],
                       !.protect = s.cfg.passGrace, !.receiverIndex = idx, !.trapLock = 250,
                       !.trapOwner = -1, !.ptCarrier = -1]

\* function passToSelected()
passToSelected(s) == passToIndex(s, s.selectedIdx)

\* function mousedown(e): e.button, the world point of the pointer, e.shiftKey, e.ctrlKey
mousedown(s, button, p, shift, ctrl) ==
    IF button = 2 THEN passToSelected(s)
    ELSE IF button # 0 THEN s
    ELSE [s EXCEPT !.charging = TRUE, !.aim = p, !.mod = [shift |-> shift, ctrl |-> ctrl]]

\* function mousemove(e)
mousemove(s, p) == IF ~s.charging THEN s ELSE [s EXCEPT !.aim = p]

\* Variant of mouseup: a left release shoots whether or not a shot is being charged
mouseupUnguarded(s, button, hold, spray) ==
    IF button # 0 THEN s
    ELSE shoot([s EXCEPT !.charging = FALSE], hold, spray)

\* function mouseup(e)
mouseup(s, button, hold, spray) ==
    IF button # 0 THEN s
    ELSE IF ~s.charging THEN s
    ELSE shoot([s EXCEPT !.charging = FALSE], hold, spray)

\* function keydown(e)
keydown(s, k, shift) ==
    LET s1 == IF k \in KeyNames THEN [s EXCEPT !.keys[k] = TRUE] ELSE s
    IN  IF k = "Tab" THEN cycleSelected(s1, IF shift THEN -1 ELSE 1) ELSE s1

\* function keyup(e)
keyup(s, k) == IF k \in KeyNames THEN [s EXCEPT !.keys[k] = FALSE] ELSE s

\* -------------------------------------------------------------- lifecycle
\* The listeners the effect registers on window: resize, then the six input listeners
Registered == {"resize", "mousedown", "mousemove", "mouseup", "contextmenu", "keydown", "keyup"}

\* What the effect holds once it has run: the frame callback requested, the listeners on
Mounted == [raf |-> TRUE, listeners |-> Registered, torn |-> FALSE]

\* Variant of teardown: the keydown listener is left on window
teardownKeepsKeydown(l) ==
    [raf |-> FALSE,
     listeners |-> l.listeners \ {"mousedown", "mousemove", "mouseup", "contextmenu",
                                  "resize", "keyup"},
     torn |-> TRUE]

\* The cleanup the effect returns: cancelAnimationFrame(raf), then seven removeEventListener
teardown(l) ==
    [raf |-> FALSE,
     listeners |-> l.listeners \ {"mousedown", "mousemove", "mouseup", "contextmenu",
                                  "resize", "keydown", "keyup"},
     torn |-> TRUE]

\* --------------------------------------------------------- service worker
\* docs/sw.js.  A cache is a set of URLs (the response stored for each); a path is the
\* sequence of its segments, so "/kickcraft/index.html" is <<"kickcraft", "index.html">>
\* and "/kickcraft" is <<"kickcraft">>.
VERSION == "kickcraft-v3"

\* The cache name of the worker deployed before this one: the same file, one version back
PREVIOUS == "kickcraft-v2"

CacheNames == {PREVIOUS, VERSION}

IndexUrl == [origin |-> "self", path |-> <<"kickcraft", "index.html">>]

\* The members of CORE_ASSETS among the URLs requested
CORE_ASSETS == {IndexUrl}

\* The requests pages make
Requests ==
    [origin : {"self", "other"},
     path   : {<<"kickcraft", "index.html">>, <<"kickcraft", "data.json">>, <<"kickcraft">>},
     method : {"GET", "POST"}]

Url(req) == [origin |-> req.origin, path |-> req.path]

\* url.origin === self.location.origin and url.pathname.startsWith('/kickcraft/')
InScope(req) ==
    /\ req.origin = "self"
    /\ Len(req.path) >= 2 /\ req.path[1] = "kickcraft"

\* The fetch handlers that may be in flight at once
NumHandlers == 2

HandlerIdx == 1 .. NumHandlers

IdleHandler ==
    [pc |-> "idle", req |-> [origin |-> "self", path |-> <<"kickcraft">>, method |-> "GET"],
     ver |-> VERSION, cached |-> "unknown", answer |-> "none", net |-> 0]

\* The worker's world before its install event; prev: an earlier version left its cache
SwNew(prev) ==
    [prev     |-> prev,
     open     |-> IF prev THEN {PREVIOUS} ELSE {},
     entries  |-> [c \in CacheNames |-> IF prev /\ c = PREVIOUS THEN {IndexUrl} ELSE {}],
     handlers |-> [h \in HandlerIdx |-> IdleHandler],
     act      |-> "installing",
     todo     |-> {}]

\* caches.match(req): a response stored for the URL in any cache
Matches(w, req) == \E c \in w.open : Url(req) \in w.entries[c]

\* install listener: open VERSION, addAll(CORE_ASSETS), skipWaiting
install(w) ==
    [w EXCEPT !.open = @ \cup {VERSION},
              !.entries[VERSION] = @ \cup CORE_ASSETS,
              !.act = "waiting"]

\* activate listener: caches.keys() and the filter
activateKeys(w) == [w EXCEPT !.todo = w.open \ {VERSION}, !.act = "deleting"]

\* activate listener: one caches.delete(k) completes
activateDelete(w, k) ==
    [w EXCEPT !.open = @ \ {k}, !.entries[k] = {}, !.todo = @ \ {k}]

\* activate listener: Promise.all is settled, self.clients.claim()
claim(w) == [w EXCEPT !.act = "claimed"]

\* fetch listener, lines 36-44: the event of a request arrives at the worker in
\* control, ver its version; out of scope or not a GET, the listener returns
fetchEvent(w, h, req, ver) ==
    [w EXCEPT !.handlers[h] =
        IF InScope(req) /\ req.method = "GET"
        THEN [IdleHandler EXCEPT !.pc = "match", !.req = req, !.ver = ver]
        ELSE [IdleHandler EXCEPT !.pc = "done", !.req = req, !.ver = ver,
                                 !.answer = "unhandled"]]

\* Variant of match: the network is asked even when the cache answers
matchNetworkFirst(w, h) ==
    [w EXCEPT !.handlers[h].pc = "fetch",
              !.handlers[h].cached = IF Matches(w, w.handlers[h].req) THEN "hit" ELSE "miss"]

\* fetch listener, lines 46-47: caches.match(req) settles
match(w, h) ==
    IF Matches(w, w.handlers[h].req)
    THEN [w EXCEPT !.handlers[h].pc = "done", !.handlers[h].cached = "hit",
                   !.handlers[h].answer = "cached"]
    ELSE [w EXCEPT !.handlers[h].pc = "fetch", !.handlers[h].cached = "miss"]

\* fetch listener, lines 48-53: fetch(req) fulfils; res is returned, the backfill starts
netOk(w, h) ==
    [w EXCEPT !.handlers[h].pc = "open", !.handlers[h].net = @ + 1,
              !.handlers[h].answer = "network"]

\* fetch listener, lines 48 and 54: fetch(req) rejects; .catch(() => cached)
netFail(w, h) ==
    [w EXCEPT !.handlers[h].pc = "done", !.handlers[h].net = @ + 1,
              !.handlers[h].answer = IF w.handlers[h].cached = "hit" THEN "cached"
                                     ELSE "undefined"]

\* fetch listener, line 51: caches.open(VERSION) settles (it creates a missing cache)
open(w, h) ==
    [w EXCEPT !.handlers[h].pc = "put", !.open = @ \cup {w.handlers[h].ver}]

\* fetch listener, line 51: cache.put(req, copy) settles; a cache deleted since it was
\* opened takes the write with it
put(w, h) ==
    LET c == w.handlers[h].ver
    IN  [w EXCEPT !.handlers[h].pc = "stored",
                  !.entries[c] = IF c \in w.open THEN @ \cup {Url(w.handlers[h].req)} ELSE @]

\* ------------------------------------------------------- starting states
\* The state machine starts in a state of play the component reaches: the state as
\* constructed, with the ball somewhere on the pitch with some velocity (a kick from
\* anywhere gives it), the selected mate walked somewhere inside its clamp, and a
\* number of attacking goals already scored (by the code's own goal branch).
Rest(x, y) == [x |-> x, y |-> y, vx |-> 0, vy |-> 0, spin |-> 0]

Moving(x, y, vx, vy) == [x |-> x, y |-> y, vx |-> vx, vy |-> vy, spin |-> 0]

Scenarios ==
    { \* kick-off: exactly the state after construction
      [ball |-> Rest(W \div 2, H \div 2), sel |-> [x |-> 290, y |-> HFrac(68)], gkx |-> W \div 2],
      \* a shot about to cross the far goal line, wide of the keeper
      [ball |-> Moving(650, 60, 0, -800), sel |-> [x |-> 290, y |-> HFrac(68)], gkx |-> W \div 2],
      \* a shot about to cross the near goal line, wide of the keeper
      [ball |-> Moving(450, 565, 0, 600), sel |-> [x |-> 290, y |-> HFrac(68)], gkx |-> W \div 2],
      \* a loose ball at the feet of the French striker, the selected mate close by
      [ball |-> Rest(550, 140), sel |-> [x |-> 570, y |-> 108], gkx |-> W \div 2],
      \* a loose ball between the French striker and the selected mate, in reach of both
      [ball |-> Rest(550, 140), sel |-> [x |-> 560, y |-> 150], gkx |-> W \div 2],
      \* a ball flying into the left and bottom walls
      [ball |-> Moving(45, 575, -700, 600), sel |-> [x |-> 290, y |-> HFrac(68)], gkx |-> W \div 2],
      \* a ball flying into the right and top walls
      [ball |-> Moving(1060, 40, 700, -600), sel |-> [x |-> 290, y |-> HFrac(68)], gkx |-> W \div 2],
      \* a loose ball on the left touchline, the selected mate at the edge of its clamp
      [ball |-> Rest(PAD + BALL_R, 300), sel |-> [x |-> 24, y |-> 310], gkx |-> W \div 2],
      \* a ball the home keeper has smothered (it lies at the keeper's x, y - 12), the
      \* selected mate on the goal line behind the keeper
      [ball |-> Rest(W \div 2, H - GK_DEPTH - 12), sel |-> [x |-> W \div 2, y |-> H - PAD], gkx |-> W \div 2],
      \* a shot flying wide of the far goal's right post, the far keeper already near it
      [ball |-> Moving(740, 200, 300, -600), sel |-> [x |-> 290, y |-> HFrac(68)], gkx |-> 688],
      \* a loose ball just in front of the far keeper
      [ball |-> Rest(560, 80), sel |-> [x |-> 290, y |-> HFrac(68)], gkx |-> W \div 2] }

\* state after n attacking goals scored from s
RECURSIVE AfterGoals(_, _)
AfterGoals(s, n) == IF n = 0 THEN s ELSE FarGoal(AfterGoals(s, n - 1))

\* The scenario sc laid over the state s
Placed(s, sc) ==
    [s EXCEPT !.ball = sc.ball, !.mates[0].x = sc.sel.x, !.mates[0].y = sc.sel.y,
              !.gkFR.x = sc.gkx]

\* The elapsed time between two frames, ms: a 60 Hz display, and a slow one
FrameMs == {17, 40}

InitGame(st, dt) ==
    /\ state = st
    /\ ev = InputEv("init", -1, -1, st)
    /\ dtMs = dt
    /\ nTicks = 0
    /\ nInputs = 0
    /\ life = Mounted

InitState(st, dt) == InitGame(st, dt) /\ sw = SwNew(TRUE)

Init == \E dt \in FrameMs, sc \in Scenarios : InitState(Placed(NewState, sc), dt)

\* The same states of play after n attacking goals
InitGoals ==
    \E dt \in FrameMs, sc \in Scenarios, n \in 0 .. MaxGoals :
        InitState(Placed(AfterGoals(NewState, n), sc), dt)

\* ---------------------------------------------------------------- actions
\* A parry happens only to a ball that moves along y at GK_HOLD_SPEED or more when it
\* meets a keeper; within update the ball's speed grows by spin alone, by less than |spin|.
\* In every other frame the parry's random angle is not drawn.
MayParry(s) ==
    /\ s.ball.vy # 0
    /\ Sq(Abs(s.ball.vx) + Abs(s.ball.spin)) + Sq(s.ball.vy) >= Sq(GK_HOLD_SPEED)

\* A defender shoots only from the zone in front of the home goal, and moves less than
\* `reach` in a frame.  In every other frame the shot's random speed is not drawn.
MayShoot(s, dt) ==
    LET reach == Quot(s.cfg.defenderSpeed * dt, 1000) + 1
    IN  \E i \in DefIdx :
            /\ (H - GOAL_LINE) - s.defenders[i].y < 60 + reach
            /\ Abs(s.defenders[i].x - W \div 2) < GOAL_W \div 2 - 20 + reach

Angles(s) == IF MayParry(s) THEN ParryAngles ELSE {CHOOSE a \in ParryAngles : TRUE}

Speeds(s, dt) == IF MayShoot(s, dt) THEN ShotSpeeds ELSE {CHOOSE v \in ShotSpeeds : TRUE}

\* function step(t): one frame; dt = Math.min(0.033, (t - state.t)/1000)
Frame(limit) ==
    /\ life.raf
    /\ nTicks < limit
    /\ \E dt \in {Min(DT_CAP_MS, dtMs)} :
       \E angle \in Angles(state), speed \in Speeds(state, dt) :
       \E u \in {update(state, dt, angle, speed)} :
           state' = u.s /\ ev' = u.ev
    /\ nTicks' = nTicks + 1
    /\ UNCHANGED <<dtMs, nInputs, life, sw>>

Step == Frame(MaxTicks)

\* The same callback, for a longer stretch of play
Play == Frame(MaxPlayTicks)

\* The inputs delivered
Buttons == {0, 2}

AimPoints == { [x |-> W \div 2, y |-> GOAL_LINE], [x |-> 1000, y |-> 300] }

Holds == {100, 900}

PressedKeys == {"a", "Tab"}

Input(kind, button, hold, s) ==
    /\ kind \in life.listeners
    /\ nInputs < MaxInputs
    /\ state' = s
    /\ ev' = InputEv(kind, button, hold, state)
    /\ nInputs' = nInputs + 1
    /\ UNCHANGED <<dtMs, nTicks, life, sw>>

MouseDown ==
    \E button \in Buttons, p \in AimPoints, shift \in BOOLEAN, ctrl \in BOOLEAN :
        Input("mousedown", button, -1, mousedown(state, button, p, shift, ctrl))

MouseMove == \E p \in AimPoints : Input("mousemove", -1, -1, mousemove(state, p))

MouseUp ==
    \E button \in Buttons, hold \in Holds, spray \in Sprays :
        Input("mouseup", button, IF button = 0 /\ state.charging THEN hold ELSE -1,
              mouseup(state, button, hold, spray))

KeyDown ==
    \E k \in PressedKeys, shift \in BOOLEAN :
        Input("keydown", -1, -1, keydown(state, k, shift))

KeyUp == \E k \in PressedKeys : Input("keyup", -1, -1, keyup(state, k))

\* function context(e) and function resize(): neither touches `state`
ContextMenu == Input("contextmenu", 2, -1, state)

Resize == Input("resize", -1, -1, state)

\* The effect's cleanup runs (the component unmounts)
Teardown ==
    /\ ~life.torn
    /\ life' = teardown(life)
    /\ UNCHANGED <<state, ev, dtMs, nTicks, nInputs, sw>>

Next == Step \/ MouseDown \/ MouseMove \/ MouseUp \/ KeyDown \/ KeyUp

Spec == Init /\ [][Next]_vars

\* Frames alone, from any number of goals scored
SpecGoals == InitGoals /\ [][Step]_vars

\* A session from kick-off to its teardown
InitLife == \E dt \in FrameMs : InitState(NewState, dt)

NextLife == Next \/ ContextMenu \/ Resize \/ Teardown

SpecLife == InitLife /\ [][NextLife]_vars

\* Play left to run from kick-off, the player only pressing keys
SpecPlay == InitLife /\ [][Play \/ KeyDown]_vars

\* A long stretch of play from one of these openings of the state s: kick-off left
\* alone; Shift+Tab once or twice (the right winger or the striker selected); a right
\* press (a pass to the left back); Tab and a right press (a pass to the left centre
\* back); a shot about to cross the far goal line.  Each is the state after its last
\* input, with that input's kind and button and the state it found.
Openings(s) ==
    LET p   == [x |-> W \div 2, y |-> GOAL_LINE]
        far == Placed(s, CHOOSE sc \in Scenarios : sc.ball.vy = -800)
        tab == keydown(s, "Tab", FALSE)
        rw  == keydown(s, "Tab", TRUE)
    IN  { [kind |-> "init", button |-> -1, pre |-> s, s |-> s],
          [kind |-> "init", button |-> -1, pre |-> far, s |-> far],
          [kind |-> "keydown", button |-> -1, pre |-> s, s |-> rw],
          [kind |-> "keydown", button |-> -1, pre |-> rw, s |-> keydown(rw, "Tab", TRUE)],
          [kind |-> "mousedown", button |-> 2, pre |-> s,
           s |-> mousedown(s, 2, p, FALSE, FALSE)],
          [kind |-> "mousedown", button |-> 2, pre |-> tab,
           s |-> mousedown(tab, 2, p, FALSE, FALSE)] }

InitLong ==
    \E dt \in FrameMs, n \in 0 .. MaxGoals :
        \E o \in Openings(AfterGoals(NewState, n)) :
            /\ state = o.s
            /\ ev = InputEv(o.kind, o.button, -1, o.pre)
            /\ dtMs = dt
            /\ nTicks = 0
            /\ nInputs = 0
            /\ life = Mounted
            /\ sw = SwNew(TRUE)

Long == Frame(MaxLongTicks)

SpecLong == InitLong /\ [][Long]_vars

\* The service worker's events and the steps of its promises
GameIdle == UNCHANGED <<state, ev, dtMs, nTicks, nInputs, life>>

SwInstall == sw.act = "installing" /\ sw' = install(sw) /\ GameIdle

SwActivateKeys == sw.act = "waiting" /\ sw' = activateKeys(sw) /\ GameIdle

SwActivateDelete ==
    /\ sw.act = "deleting"
    /\ \E k \in sw.todo : sw' = activateDelete(sw, k)
    /\ GameIdle

SwClaim == sw.act = "deleting" /\ sw.todo = {} /\ sw' = claim(sw) /\ GameIdle

\* Pages are controlled by the previous worker, if there was one, until this one has
\* claimed them
SwFetch ==
    /\ sw.act = "claimed" \/ sw.prev
    /\ \E h \in HandlerIdx, req \in Requests :
           /\ sw.handlers[h].pc = "idle"
           /\ \A g \in HandlerIdx : g < h => sw.handlers[g].pc # "idle"
           /\ sw' = fetchEvent(sw, h, req, IF sw.act = "claimed" THEN VERSION ELSE PREVIOUS)
    /\ GameIdle

SwStep(pc, h, w) == sw.handlers[h].pc = pc /\ sw' = w /\ GameIdle

SwMatch == \E h \in HandlerIdx : SwStep("match", h, match(sw, h))

SwNetOk == \E h \in HandlerIdx : SwStep("fetch", h, netOk(sw, h))

SwNetFail == \E h \in HandlerIdx : SwStep("fetch", h, netFail(sw, h))

SwOpen == \E h \in HandlerIdx : SwStep("open", h, open(sw, h))

SwPut == \E h \in HandlerIdx : SwStep("put", h, put(sw, h))

InitSW == \E prev \in BOOLEAN : InitGame(NewState, DT_CAP_MS) /\ sw = SwNew(prev)

NextSW ==
    \/ SwInstall \/ SwActivateKeys \/ SwActivateDelete \/ SwClaim
    \/ SwFetch \/ SwMatch \/ SwNetOk \/ SwNetFail \/ SwOpen \/ SwPut

SpecSW == InitSW /\ [][NextSW]_vars

\* ----------------------------------------------------------------- claims
\* The last handler was a frame's update
IsTick == ev.kind = "tick"

\* C1: after every frame and every input handler the ball has at most one owner: never
\* a defender as carrier (ai.carrier non-null) together with an attacking carrier
\* (ai.ptCarrier >= 0).
C1_OneOwner == ~(state.carrier # -1 /\ state.ptCarrier >= 0)

\* The frame's goal tests saw a goal: the ball's leading edge past a goal line, inside the mouth
FarGoalSeen ==
    IsTick /\ ev.atGoal.y - 10 < 36 /\ Abs(ev.atGoal.x - 550) < 160

NearGoalSeen ==
    IsTick /\ ev.atGoal.y + 10 > 620 - 36 /\ Abs(ev.atGoal.x - 550) < 160

\* C2: whenever a frame detects a goal, the reset leaves the ball at the centre at rest
\* without spin, and every possession tracker and timer at its initial value:
\* carrier null, ptCarrier -1, receiverIndex -1, trapOwner -1, protect 0, trapLock 0,
\* tackleCd 0.
C2_GoalResetsAll ==
    (FarGoalSeen \/ NearGoalSeen) =>
        ev.afterGoals = [ball |-> [x |-> 550, y |-> 310, vx |-> 0, vy |-> 0, spin |-> 0],
                         carrier |-> -1, ptCarrier |-> -1, receiverIndex |-> -1,
                         trapOwner |-> -1, protect |-> 0, trapLock |-> 0, tackleCd |-> 0]

\* C3: a frame counts at most one goal: a ball past the far line inside the mouth raises
\* score by exactly 1 and leaves against; a ball past the near line inside the mouth
\* raises against by exactly 1 and leaves score, levelProgress and levelIdx; any other
\* frame leaves score and against.
C3_OneGoalPerTick ==
    IsTick =>
        /\ (state.score - ev.pre.score) + (state.against - ev.pre.against) \in {0, 1}
        /\ FarGoalSeen =>
               state.score = ev.pre.score + 1 /\ state.against = ev.pre.against
        /\ NearGoalSeen =>
               /\ state.against = ev.pre.against + 1
               /\ state.score = ev.pre.score
               /\ state.levelProgress = ev.pre.levelProgress
               /\ state.levelIdx = ev.pre.levelIdx
        /\ (~FarGoalSeen /\ ~NearGoalSeen) =>
               state.score = ev.pre.score /\ state.against = ev.pre.against

\* C3 witness: a frame that counted a far goal
C3_Witness == FarGoalSeen /\ state.score = ev.pre.score + 1

\* C4: over any sequence of attacking goals levelIdx never decreases and never exceeds
\* the last tier index 6; after n attacking goals it is min(floor(n/2), 6); it advances
\* by exactly one, on a goal that completes a pair, with levelProgress reset to 0; and
\* levelProgress stays within 0..1.
C4_TierMonotone ==
    /\ state.levelIdx >= ev.pre.levelIdx
    /\ state.levelIdx <= 6
    /\ state.levelIdx = Min(state.score \div 2, 6)
    /\ state.levelProgress \in 0 .. 1
    /\ state.levelIdx # ev.pre.levelIdx =>
           /\ state.levelIdx = ev.pre.levelIdx + 1
           /\ state.score = ev.pre.score + 1
           /\ state.score % 2 = 0
           /\ state.levelProgress = 0
    /\ (state.score = ev.pre.score + 1 /\ state.score % 2 = 0 /\ ev.pre.levelIdx < 6) =>
           state.levelIdx = ev.pre.levelIdx + 1

\* C4 witness: the goal that takes the game into the last tier
C4_Witness == IsTick /\ ev.pre.levelIdx = 5 /\ state.levelIdx = 6 /\ state.score = 12

\* The defenders flagged engaged
EngagedNow == {i \in DefIdx : state.defenders[i].engaged}

\* The defenders that lay within the active tier's engageRadius of the ball when the
\* frame chose its engagement set
InRadius ==
    {i \in DefIdx :
        Sq(ev.pre.defenders[i].x - ev.atDefenders.ball.x)
          + Sq(ev.pre.defenders[i].y - ev.atDefenders.ball.y)
            < Sq(Level(state.levelIdx).engageRadius)}

\* C5: at the end of every frame the defenders flagged engaged number at most the active
\* tier's maxEngagers, also when more defenders lie within engageRadius and also in a
\* frame that changes the tier.
C5_EngagementCap == Cardinality(EngagedNow) <= Level(state.levelIdx).maxEngagers

\* C5 witness: a frame that moved to a tier with another cap, with more defenders in
\* the radius than the cap lets engage
C5_Witness ==
    /\ IsTick
    /\ Level(ev.pre.levelIdx).maxEngagers # Level(state.levelIdx).maxEngagers
    /\ Cardinality(InRadius) > Level(state.levelIdx).maxEngagers
    /\ Cardinality(EngagedNow) = Level(state.levelIdx).maxEngagers

\* C6: a defender becomes carrier in a frame only if at its tackle test it is not the
\* carrier, protect is 0, tackleCd is 0, it touches the ball (distance < 14 + 10) and
\* the ball's speed is at most the active tier's captureSpeedMax; when protect > 0,
\* tackleCd > 0 or the speed is above that ceiling, the test leaves the carrier.
C6_CaptureGated ==
    \A i \in DefIdx :
        LET t == ev.tackle[i]
            ceiling == Level(state.levelIdx).captureSpeedMax
        IN  /\ t.after # t.carrier =>
                /\ t.after = i
                /\ t.protect = 0
                /\ t.tackleCd = 0
                /\ t.dist2 < Sq(14 + 10)
                /\ t.speed2 <= Sq(ceiling)
            /\ (t.protect > 0 \/ t.tackleCd > 0 \/ t.speed2 > Sq(ceiling)) =>
                   t.after = t.carrier

\* C6 witness: a frame in which a defender took the ball
C6_Witness == IsTick /\ \E i \in DefIdx : ev.tackle[i].after = i /\ ev.tackle[i].carrier # i

\* The mates that overlapped the ball at the frame's trap test
Overlapping ==
    {i \in MateIdx :
        Sq(ev.atTrap.ball.x - ev.pre.mates[i].x) + Sq(ev.atTrap.ball.y - ev.pre.mates[i].y)
            < Sq(14 + 10 - 1)}

\* C7: in a frame whose trap test finds trapLock 0 and a mate overlapping the ball, the
\* lowest-indexed such mate becomes the receiver: receiverIndex and ptCarrier are its
\* index, the ball sits at (x, y - 12) of it at rest without spin, protect is 500,
\* trapLock 300, and the defender carrier is cleared; with trapLock > 0 nobody traps.
C7_TrapMakesReceiver ==
    IsTick =>
        /\ (ev.atTrap.trapLock = 0 /\ Overlapping # {}) =>
               LET i == CHOOSE k \in Overlapping : \A j \in Overlapping : k <= j
               IN  /\ ev.afterTrap.receiverIndex = i
                   /\ ev.afterTrap.ptCarrier = i
                   /\ ev.afterTrap.ball = [x |-> ev.pre.mates[i].x, y |-> ev.pre.mates[i].y - 12,
                                           vx |-> 0, vy |-> 0, spin |-> 0]
                   /\ ev.afterTrap.protect = 500
                   /\ ev.afterTrap.trapLock = 300
                   /\ ev.afterTrap.carrier = -1
        /\ ev.atTrap.trapLock > 0 => ev.afterTrap = ev.atTrap

\* The last handler was a human kick: a left release that shot, or a right press that passed
Shot == ev.kind = "mouseup" /\ ev.button = 0 /\ ev.pre.charging

Passed == ev.kind = "mousedown" /\ ev.button = 2

\* C8: every human kick clears the possession trackers together: after it no defender
\* is carrier, no attacking player is carrier (ptCarrier -1, trapOwner -1), and protect
\* and trapLock are fresh (shot: 120 and 250; pass: the active tier's passGrace and 250).
C8_KickClearsPossession ==
    /\ (Shot \/ Passed) =>
           state.carrier = -1 /\ state.ptCarrier = -1 /\ state.trapOwner = -1
    /\ Shot => state.protect = 120 /\ state.trapLock = 250
    /\ Passed => state.protect = Level(state.levelIdx).passGrace /\ state.trapLock = 250

\* C9: at the end of every frame the ball's centre is inside the field:
\* 24 + 10 <= x <= W - 24 - 10 and 24 + 10 <= y <= H - 24 - 10.
C9_BallInBounds ==
    IsTick =>
        /\ 24 + 10 <= state.ball.x /\ state.ball.x <= 1100 - 24 - 10
        /\ 24 + 10 <= state.ball.y /\ state.ball.y <= 620 - 24 - 10

\* v * 0.58, reversed
Bounced(v) == -Quot(v * 58, 100)

\* C10: after the walls are resolved the ball is not past a boundary minus its radius,
\* and a velocity component is reversed and scaled by 0.58 exactly when the ball was
\* past that wall and moving into it; a ball past a wall but moving away from it, and a
\* ball past no wall, keep that component.
C10_WallRebound ==
    IsTick =>
        LET in  == ev.atWalls
            out == ev.atGoal
        IN  /\ 34 <= out.x /\ out.x <= 1066 /\ 34 <= out.y /\ out.y <= 586
            /\ out.vx = IF (in.x < 34 /\ in.vx < 0) \/ (in.x > 1066 /\ in.vx > 0)
                        THEN Bounced(in.vx) ELSE in.vx
            /\ out.vy = IF (in.y < 34 /\ in.vy < 0) \/ (in.y > 586 /\ in.vy > 0)
                        THEN Bounced(in.vy) ELSE in.vy

\* C10 witness: a ball past the left wall that was moving away from it, and kept its velocity
C10_Witness ==
    IsTick /\ ev.atWalls.x < 34 /\ ev.atWalls.vx > 0 /\ ev.atGoal.x = 34
        /\ ev.atGoal.vx = ev.atWalls.vx

\* The five timers of a state
Timers(s) ==
    [protect |-> s.protect, trapLock |-> s.trapLock, tackleCd |-> s.tackleCd,
     reactFR |-> s.gkFR.reactT, reactPT |-> s.gkPT.reactT]

TimerNames == {"protect", "trapLock", "tackleCd", "reactFR", "reactPT"}

\* The values the events of a frame assign: trap, capture, smother, parry and defender
\* shot to protect; trap to trapLock; capture to tackleCd; a keeper's move to its reactT
Assigned(t) ==
    CASE t = "protect"  -> {500, 250, 200, 140, 40}
      [] t = "trapLock" -> {300}
      [] t = "tackleCd" -> {120}
      [] OTHER          -> {30}

\* Non-negative, and over a frame no larger unless assigned
TimersBounded ==
    \A t \in TimerNames :
        /\ Timers(state)[t] >= 0
        /\ IsTick => Timers(state)[t] <= Timers(ev.pre)[t] \/ Timers(state)[t] \in Assigned(t)

\* C11: protect, trapLock, tackleCd and both keepers' reactT are never negative; over a
\* frame each ends no larger than it began unless an event of the frame assigns it; and
\* none drops by more than 33 ms in a frame except through a goal reset or, for protect,
\* through a keeper's save or a defender's shot assigning it 200, 140 or 40.
C11_TimersDecay ==
    /\ TimersBounded
    /\ IsTick =>
           \A t \in TimerNames :
               \/ Timers(ev.pre)[t] - Timers(state)[t] <= 33
               \/ FarGoalSeen \/ NearGoalSeen
               \/ t = "protect" /\ state.protect \in {200, 140, 40}

\* C11 as stated: a drop of more than 33 ms in a frame happens only through a goal reset.
C11_AsStated ==
    /\ TimersBounded
    /\ IsTick =>
           \A t \in TimerNames :
               \/ Timers(ev.pre)[t] - Timers(state)[t] <= 33
               \/ FarGoalSeen \/ NearGoalSeen

\* C11 witness: a frame without a goal in which the keeper's smother cut a pass's protect
\* window down to 200
C11_Witness ==
    /\ IsTick /\ ~FarGoalSeen /\ ~NearGoalSeen
    /\ ev.pre.protect - state.protect > 33 /\ state.protect = 200
    /\ ev.pre.trapLock - state.trapLock \in 1 .. 33

\* (300 + 500 * p) * factor, p = hold / 900 ms kept within [0.15, 1], factor in percent
ExpectedSpeed(hold, factor) ==
    LET p == IF hold * 1000 < 150 * 900 THEN 150 ELSE IF hold >= 900 THEN 1000
             ELSE (hold * 1000) \div 900
    IN  ((300000 + 500 * p) * factor) \div 100000

\* C12: shoot() takes the shot type from the modifier flags: Shift without Ctrl is finesse
\* (factor 0.82, spin 85 signed as aim.x - ball.x), Ctrl without Shift is driven (factor
\* 1.18, spin 0), neither or both is default (factor 1, spin 0); the speed is
\* (300 + 500 p) * factor; a hold of 900 ms or more without modifiers gives speed 800
\* within 0.015 rad of the ball-to-aim direction.  Speeds are compared to the integer
\* velocity components (each cut to a whole unit: up to 3 units short), the direction
\* with 0.002 rad for the same reason.
C12_ShotTypes ==
    Shot =>
        LET m       == ev.pre.mod
            dx      == ev.pre.aim.x - ev.pre.ball.x
            dy      == ev.pre.aim.y - ev.pre.ball.y
            b       == state.ball
            finesse == m.shift /\ ~m.ctrl
            driven  == m.ctrl /\ ~m.shift
            sp      == ExpectedSpeed(ev.hold, IF finesse THEN 82 ELSE IF driven THEN 118 ELSE 100)
            dot     == dx * b.vx + dy * b.vy
            cross   == dx * b.vy - dy * b.vx
        IN  /\ Sq(sp - 3) <= Sq(b.vx) + Sq(b.vy) /\ Sq(b.vx) + Sq(b.vy) <= Sq(sp + 1)
            /\ finesse => Abs(b.spin) = 85 /\ (dx > 0 => b.spin > 0) /\ (dx < 0 => b.spin < 0)
            /\ ~finesse => b.spin = 0
            /\ (ev.hold >= 900 /\ ~m.shift /\ ~m.ctrl) =>
                   /\ sp = 800
                   /\ (dx # 0 \/ dy # 0) => dot > 0 /\ Abs(cross) * 1000 <= 17 * dot

\* C12 witness: a full-power shot without modifiers
C12_Witness ==
    /\ Shot /\ ev.hold >= 900 /\ ~ev.pre.mod.shift /\ ~ev.pre.mod.ctrl
    /\ Sq(state.ball.vx) + Sq(state.ball.vy) >= Sq(797)

\* The simulation's part of a state
Sim(s) ==
    [vx |-> s.ball.vx, vy |-> s.ball.vy, spin |-> s.ball.spin, protect |-> s.protect,
     trapLock |-> s.trapLock, receiverIndex |-> s.receiverIndex, trapOwner |-> s.trapOwner,
     ptCarrier |-> s.ptCarrier, selectedIdx |-> s.selectedIdx]

\* C13: the pointer and keyboard handlers change only raw input records; they never
\* change the ball's velocity or spin, protect, trapLock, receiverIndex, trapOwner,
\* ai.ptCarrier or selectedIdx.
C13_HandlersLeaveSim ==
    ev.kind \in {"mousedown", "mousemove", "mouseup", "keydown", "keyup"} =>
        Sim(state) = Sim(ev.pre)

\* C14: once teardown has run, in whatever state the session was, the frame callback is
\* cancelled and every listener registered at start is removed, and no update and no
\* input handler runs again.
C14_TeardownReleases ==
    /\ [](life.torn => ~life.raf /\ life.listeners = {})
    /\ [][life.torn => UNCHANGED <<state, ev, nTicks, nInputs>>]_vars

\* C14 witness: torn down while a shot was being charged and a key was held
C14_Witness == life.torn /\ state.charging /\ state.keys["a"] /\ nTicks > 0

\* C15: a shot is fired only by a left release that follows a left press with no shot in
\* between: charging changes only by a left press (to true) and a left release (to
\* false), a press fires nothing, a release fires exactly when charging was true, and a
\* right press passes to the selected player at once and starts no charge.
C15_ShotPerPress ==
    /\ state.charging # ev.pre.charging =>
           \/ ev.kind = "mousedown" /\ ev.button = 0 /\ state.charging
           \/ ev.kind = "mouseup" /\ ev.button = 0 /\ ~state.charging
    /\ (ev.kind = "mousedown" /\ ev.button = 0) =>
           state.charging /\ Sim(state) = Sim(ev.pre)
    /\ (ev.kind = "mouseup" /\ ev.button = 0 /\ ev.pre.charging) =>
           ~state.charging /\ state.protect = 120 /\ state.trapLock = 250
    /\ (ev.kind = "mouseup" /\ ~(ev.button = 0 /\ ev.pre.charging)) => state = ev.pre
    /\ (ev.kind = "mousedown" /\ ev.button = 2) =>
           /\ state.charging = ev.pre.charging
           /\ state.receiverIndex = state.selectedIdx
           /\ state.trapLock = 250

\* C15 witness: a left release that ended a charge and fired
C15_Witness ==
    /\ ev.kind = "mouseup" /\ ev.button = 0 /\ ev.pre.charging
    /\ ~state.charging /\ state.protect = 120 /\ Sim(state) # Sim(ev.pre)

\* A same-origin GET under /kickcraft/
Scoped(req) ==
    /\ req.origin = "self" /\ req.method = "GET"
    /\ Len(req.path) > 1 /\ Head(req.path) = "kickcraft"

\* C16: for a same-origin GET under /kickcraft/, a cached response is returned without
\* a network request; otherwise the network is fetched and its response is returned and
\* stored in the current-version cache; a request of another origin, path or method is
\* never answered and never reaches the caches.
C16_CacheFirst ==
    \A h \in HandlerIdx :
        LET r == sw.handlers[h]
        IN  r.pc # "idle" =>
                /\ ~Scoped(r.req) => r.answer = "unhandled" /\ r.net = 0 /\ r.pc = "done"
                /\ (Scoped(r.req) /\ r.cached = "hit") =>
                       r.answer = "cached" /\ r.net = 0 /\ r.pc = "done"
                /\ (Scoped(r.req) /\ r.pc \in {"open", "put", "stored"}) =>
                       r.answer = "network" /\ r.cached = "miss" /\ r.net = 1
                /\ (Scoped(r.req) /\ r.pc = "stored" /\ r.ver = "kickcraft-v3") =>
                       [origin |-> r.req.origin, path |-> r.req.path]
                           \in sw.entries["kickcraft-v3"]

\* C16 witness: a miss answered from the network and stored by the current worker
C16_Witness ==
    \E h \in HandlerIdx :
        /\ sw.handlers[h].pc = "stored" /\ sw.handlers[h].ver = "kickcraft-v3"
        /\ sw.handlers[h].answer = "network"
        /\ Url(sw.handlers[h].req) \in sw.entries["kickcraft-v3"]

C18_FailurePropagates ==
    \A h \in HandlerIdx :
        LET r == sw.handlers[h]
        IN  (r.ver = "kickcraft-v3" /\ r.pc = "done" /\ r.cached = "miss") =>
                r.answer \in {"cached", "rejected"}

\* C19: in every frame throughout which a defender stays carrier, it does not move away
\* from the goal line it attacks (y = H - 36), and the ball ends the frame no farther
\* from that line than it began.
C19_CarrierAdvances ==
    (IsTick /\ state.carrier # -1 /\ ev.pre.carrier = state.carrier) =>
        LET i == state.carrier
        IN  /\ Abs(620 - 36 - state.defenders[i].y) <= Abs(620 - 36 - ev.pre.defenders[i].y)
            /\ Abs(620 - 36 - state.ball.y) <= Abs(620 - 36 - ev.pre.ball.y)

\* A mate trapped the ball in the frame
Trapped == IsTick /\ ev.atTrap.trapLock = 0 /\ Overlapping # {}

\* C20: in a frame in which a mate traps the ball no defender captures it, even when a
\* defender met every capture condition at the start of the frame.
C20_TrapBeforeTackle ==
    Trapped => \A i \in DefIdx : ev.tackle[i].after = ev.tackle[i].carrier

\* C20 witness: a trap in a frame at whose start a defender touched a free, resting ball
C20_Witness ==
    /\ Trapped
    /\ ev.pre.protect = 0 /\ ev.pre.tackleCd = 0 /\ ev.pre.carrier = -1
    /\ ev.pre.ball.vx = 0 /\ ev.pre.ball.vy = 0
    /\ \E i \in DefIdx :
           Sq(ev.pre.ball.x - ev.pre.defenders[i].x) + Sq(ev.pre.ball.y - ev.pre.defenders[i].y)
               < Sq(14 + 10)

\* ---------------------------------------------------------------- C21
\* The two keepers, by the name of their field, with whether they guard the top goal
KeeperNames == {"gkFR", "gkPT"}

\* the ball flies toward the goal of keeper k when the keepers are updated
Approaching(k) ==
    IF k = "gkFR" THEN ev.atKeepers.ball.vy < 0 ELSE ev.atKeepers.ball.vy > 0

C22_KeeperRange ==
    /\ \A k \in KeeperNames :
          /\ state[k].x >= 408 /\ state[k].x <= 692
          /\ IsTick => Abs(state[k].x - ev.pre[k].x) * 1000 <= 360 * ev.dt
    /\ state.gkFR.y = 52
    /\ state.gkPT.y = H - 52

\* the far keeper stops on its right bound, short of a full step, the ball crossing wide
C22_Witness ==
    /\ IsTick
    /\ state.gkFR.x = 692
    /\ ev.pre.gkFR.x < 692
    /\ (state.gkFR.x - ev.pre.gkFR.x) * 1000 < 360 * ev.dt - 1000
    /\ ev.atKeepers.ball.x > 692 + 34

\* ---------------------------------------------------------------- C23
\* where a save by keeper k puts the ball: 12 in front of the keeper
Front(k) == IF k = "gkFR" THEN state.gkFR.y + 12 ELSE state.gkPT.y - 12

\* the test of gkSave for keeper k, on the ball as it reaches the keepers
SaveTest(k) ==
    LET b == ev.atKeepers.ball
    IN  /\ Abs(b.x - state[k].x) < 34
        /\ IF k = "gkFR" THEN b.y - BALL_R < state.gkFR.y + 14 /\ b.vy < 0
                          ELSE b.y + BALL_R > state.gkPT.y - 14 /\ b.vy > 0

\* what gkSave has to leave behind for keeper k
SaveOutcome(k) ==
    LET b == ev.atKeepers.ball
        a == ev.atDefenders
    IN  /\ a.ball.y = Front(k)
        /\ IF Speed2(b) < Sq(GK_HOLD_SPEED)
           THEN a.ball.vx = 0 /\ a.ball.vy = 0 /\ a.ball.x = state[k].x /\ a.protect = 200
           ELSE (IF k = "gkFR" THEN a.ball.vy >= 0 ELSE a.ball.vy <= 0) /\ a.protect = 140

\* the keepers touch the ball and protect only in a save, and a save has its outcome
C23_SaveOutcome ==
    IsTick =>
        /\ \A k \in KeeperNames : SaveTest(k) => SaveOutcome(k)
        /\ (\A k \in KeeperNames : ~SaveTest(k)) =>
              /\ ev.atDefenders.ball = ev.atKeepers.ball
              /\ ev.atDefenders.protect = ev.atKeepers.protect

\* the ball of s lies at rest where a smother leaves it, nobody holding it
Smothered(s) ==
    /\ s.ball.vx = 0 /\ s.ball.vy = 0
    /\ s.carrier = -1 /\ s.ptCarrier = -1
    /\ \/ s.ball.x = s.gkFR.x /\ s.ball.y = s.gkFR.y + 12
       \/ s.ball.x = s.gkPT.x /\ s.ball.y = s.gkPT.y - 12

\* no mate traps and no defender captures in this tick
Untouched ==
    /\ ev.afterTrap = ev.atTrap
    /\ \A i \in DefIdx : ev.tackle[i].after = ev.tackle[i].carrier

\* C23: a keeper saves only when the ball is within 34 of it laterally, the ball's leading
\* edge is within 14 of the keeper's y and the ball moves toward that goal; the save puts
\* the ball 12 in front of the keeper, at rest with protect = 200 if it was slower than
\* 380, else with vy away from the goal and protect = 140; and a smothered ball stays at
\* rest through every tick in which nobody traps or captures it.
C23_SaveAndRest ==
    /\ C23_SaveOutcome
    /\ IsTick /\ Smothered(ev.pre) /\ Untouched =>
          state.ball.vx = 0 /\ state.ball.vy = 0

\* ---------------------------------------------------------------- C27
\* C27: at every tackle test made while a mate holds the ball (ptCarrier >= 0), protect is
\* above 0 (the holder re-traps each time the trap lock expires, before protect runs
\* out), and the test does not end in a capture.
C27_HolderProtected ==
    IsTick =>
        \A i \in DefIdx :
            ev.tackle[i].ptCarrier >= 0 =>
                /\ ev.tackle[i].protect > 0
                /\ ev.tackle[i].after = ev.tackle[i].carrier

\* the same, for a holder whose ball no defender carries
C27_SoleHolderProtected ==
    IsTick =>
        \A i \in DefIdx :
            ev.tackle[i].ptCarrier >= 0 /\ ev.tackle[i].carrier = -1 =>
                /\ ev.tackle[i].protect > 0
                /\ ev.tackle[i].after = ev.tackle[i].carrier

\* ---------------------------------------------------------------- C24
\* the lag of defender i when its turn in the defender loop comes, after line 339
LagAtTurn(i) ==
    IF state.defenders[i].engaged /\ ~ev.pre.defenders[i].engaged
    THEN ev.pre.defenders[i].react
    ELSE ev.pre.defenders[i].lag

\* defender i steers to its home anchor / to the point 0.35 s ahead of the ball
SteersHome(i) ==
    /\ ev.tackle[i].tx = state.defenders[i].homeX
    /\ ev.tackle[i].ty = state.defenders[i].homeY

SteersLead(i) ==
    /\ ev.tackle[i].tx = ev.tackle[i].ball.x + Quot(ev.tackle[i].ball.vx * 35, 100)
    /\ ev.tackle[i].ty = ev.tackle[i].ball.y + Quot(ev.tackle[i].ball.vy * 35, 100)

\* C24: a defender entering the engagement set starts a lag equal to its react; while the
\* lag has not elapsed it steers to its home anchor and the lag runs down by dt; once the
\* lag has elapsed it steers to the point 0.35 s ahead of the ball; a defender leaving the
\* set gets engaged = false and lag = 0; every defender that is not engaged has lag 0 and
\* steers home.
C24_EngagementLag ==
    /\ \A i \in DefIdx : ~state.defenders[i].engaged => state.defenders[i].lag = 0
    /\ IsTick =>
          \A i \in DefIdx :
              IF ~state.defenders[i].engaged THEN SteersHome(i)
              ELSE IF LagAtTurn(i) > 0
                   THEN /\ SteersHome(i)
                        /\ state.defenders[i].lag = LagAtTurn(i) - ev.dt
                   ELSE /\ SteersLead(i)
                        /\ state.defenders[i].lag = LagAtTurn(i)

\* a defender whose lag has elapsed steers ahead of a moving ball, away from its anchor
C24_Witness ==
    /\ IsTick
    /\ \E i \in DefIdx :
          /\ state.defenders[i].engaged /\ ev.pre.defenders[i].engaged
          /\ LagAtTurn(i) <= 0
          /\ ev.tackle[i].ball.vx # 0 /\ ev.tackle[i].ball.vy # 0
          /\ SteersLead(i) /\ ~SteersHome(i)
          /\ ev.tackle[i].tx # ev.tackle[i].ball.x

\* ---------------------------------------------------------------- C25
\* the active tier
Active == LEVELS[state.levelIdx + 1]

\* the distance defender i covered in this tick is at most that of `speed` units/s
Within(i, speed) ==
    Sq(state.defenders[i].x - ev.pre.defenders[i].x)
      + Sq(state.defenders[i].y - ev.pre.defenders[i].y) <= Sq(Quot(speed * ev.dt, 1000) + 1)

\* C25: state.cfg is always the entry of LEVELS at levelIdx, so in every tick, also the
\* one whose goal advances the tier, the engaged defenders number at most the active
\* tier's maxEngagers and lay within its engageRadius, no defender moves faster than its
\* defenderSpeed, every tackle test uses its captureSpeedMax, and a pass sets protect to
\* its passGrace.
C25_CfgIsActiveTier ==
    /\ state.levelIdx \in 0 .. NumLevels - 1
    /\ state.cfg = Active
    /\ IsTick =>
          /\ Cardinality(EngagedNow) <= Active.maxEngagers
          /\ EngagedNow \subseteq InRadius
          /\ \A i \in DefIdx :
                /\ Within(i, Active.defenderSpeed)
                /\ ev.tackle[i].cap = Active.captureSpeedMax
    /\ Passed => state.protect = Active.passGrace

\* the tick of a goal that advances the tier, run with the new tier's values
C25_Witness ==
    /\ IsTick
    /\ state.levelIdx = ev.pre.levelIdx + 1
    /\ ev.pre.cfg # state.cfg
    /\ EngagedNow # {}
    /\ \A i \in DefIdx : ev.tackle[i].cap = state.cfg.captureSpeedMax

\* ---------------------------------------------------------------- C26
\* C26: inside one update the phases run in the order physics, possession (trap, tackle),
\* AI (players, keepers, defenders), level progression (scoring, tier advance): the trap
\* test sees the score and the tier the tick started with, and every tackle test sees
\* protect as the trap left it and its defender where the tick found it.
C26_PhaseOrder ==
    IsTick =>
        /\ ev.tallyAtTrap = Tally(ev.pre)
        /\ ev.atDefenders.protect = ev.afterTrap.protect
        /\ \A i \in DefIdx :
              ev.tackle[i].dist2 = Dist2(ev.tackle[i].ball, ev.pre.defenders[i])

\* the order of the code: the score and the tier are final when the trap test runs
C26_ScoringBeforeTrap == IsTick => ev.tallyAtTrap = Tally(state)

====
